---- MODULE Spec2Model ----
(***************************************************************************)
(* Golf Darts course scheduler (src/app.py): tee sheet, station allocation, *)
(* countdown and batched completion, the manual-mode suspension of the      *)
(* human player's pairing, and the round transition with the round-2 cut.   *)
(*                                                                          *)
(* Conventions.                                                             *)
(*  - Python lists are functions on 0..n-1, so that indices, tee times      *)
(*    (t0 + i*tee_interval) and station numbers (hole+1) read as in the     *)
(*    source.  A pairing (a list of player indices) is a sequence.          *)
(*  - Time is counted in tenths of a second (sim_time, timers, dt,          *)
(*    pace_seconds, tee_interval), so 0.8/1.0/1.2 * pace is an integer for  *)
(*    every pace the sidebar offers (steps of 0.5 s).                       *)
(*  - None is the value None for numbers, NoPar for a par class, NoMeta for *)
(*    await_meta and NoTurn for pending_turn.  float("inf") is Inf.         *)
(*  - A player's Scores and ParScores lists are kept as their length and    *)
(*    their sum (all the program reads of them); the value appended by a    *)
(*    step is the difference of the sums.                                   *)
(*  - The random source is sampled: random.random() over DrawSample (in     *)
(*    thousandths), random.shuffle over rotations of the list,              *)
(*    generate_finish over FinishDraws.                                     *)
(***************************************************************************)
EXTENDS Integers, Sequences, FiniteSets, TLC

(* ---------- bounds of the model ---------- *)
\* stations per round (18 in the source, src/app.py:29)
HOLES_PER_ROUND == 2
\* rounds per championship (4 in the source, src/app.py:28)
NUM_ROUNDS == 3
\* size of the field kept by the round-2 cut (50 in the source, src/app.py:235)
CUT_SIZE == 2
\* the clock stops being advanced at this sim time (tenths of a second)
MaxSimTime == 200

(* ---------- program constants ---------- *)
MAX_DARTS == 9
None == -1
Inf == 1000000
NoPar == "none"
NoMeta == [hole |-> None, par_type |-> NoPar, par |-> None, finish |-> None]
NoTurn == [pairing_index |-> None, hole_num_in_round |-> None,
           par_type |-> NoPar, par |-> None, finish |-> None]

PAR_MAP(par_type) ==
    CASE par_type = "par3" -> 3
      [] par_type = "par4" -> 4
      [] par_type = "par5" -> 5

\* PAR_TIME_FACTOR.get(par_type, 1.0), in tenths
PAR_TIME_FACTOR(par_type) ==
    CASE par_type = "par3" -> 8
      [] par_type = "par4" -> 10
      [] par_type = "par5" -> 12
      [] OTHER -> 10

\* ['par4']*12 + ['par3']*3 + ['par5']*3 scaled to HOLES_PER_ROUND stations:
\* one par3 and one par5 at the end, par4 before them.
PAR_DISTRIBUTION ==
    [h \in 0..(HOLES_PER_ROUND - 1) |->
        IF h = HOLES_PER_ROUND - 2 THEN "par3"
        ELSE IF h = HOLES_PER_ROUND - 1 THEN "par5" ELSE "par4"]

FAKE_BOT_NAMES ==
    <<"Alfie Johnson", "Barry Latham", "Cal Doyle", "Darren Smales", "Eddie Cooper",
      "Frankie Marshall", "Gavin Pike", "Harry Bolton">>

\* Code-point order of the names that occur, as pandas sorts the Name column.
NameRank(name) ==
    CASE name = "Alfie Johnson" -> 1
      [] name = "Barry Latham" -> 2
      [] name = "Cal Doyle" -> 3
      [] name = "Darren Smales" -> 4
      [] name = "Eddie Cooper" -> 5
      [] name = "Frankie Marshall" -> 6
      [] name = "Gavin Pike" -> 7
      [] name = "Harry Bolton" -> 8
      [] name = "You" -> 9
      [] OTHER -> 10

(* ---------- helpers on 0-based lists ---------- *)
Size(f) == Cardinality(DOMAIN f)
Min(a, b) == IF a < b THEN a ELSE b
SeqToSet(s) == {s[k] : k \in 1..Len(s)}

\* random.shuffle(list(range(n))), sampled over two rotations of the list
Shuffles(n) == {[j \in 1..n |-> (j - 1 + r) % n] : r \in 0..Min(1, n - 1)}

\* random.shuffle(PAR_DISTRIBUTION[:]), sampled over its rotations
ParShuffles ==
    {[h \in 0..(HOLES_PER_ROUND - 1) |-> PAR_DISTRIBUTION[(h + r) % HOLES_PER_ROUND]] :
        r \in 0..(HOLES_PER_ROUND - 1)}

\* Draws for one generate_finish call: 0 is the low end of the randint range,
\* 1 the high end.  The low end is sampled.
FinishDraws == {0}

\* generate_finish(par_type) for the draw u
generate_finish(par_type, u) ==
    CASE par_type = "par3" -> 2 + u * 38
      [] par_type = "par4" -> 41 + u * 39
      [] par_type = "par5" -> 81 + u * 39
      [] OTHER -> 2 + u * 118

\* Draws of the random source for one simulate_bot_score call:
\* <<u1, u2, u3, k>>, the three random.random() values in thousandths and the
\* randint(2,5) value.  One draw is sampled: it gives a level-20 player par and
\* a player of a lower level par + 2.
DrawSample == {<<999, 999, 999, 2>>}

\* simulate_bot_score(level, par_type) for the draws d; chance = level/20, so
\* u/1000 < 0.01*chance  <=>  2*u < level, u/1000 < 0.02*chance <=> u < level,
\* u/1000 < chance <=> u < 50*level, u/1000 < chance*0.5 <=> u < 25*level.
simulate_bot_score(level, par_type, d) ==
    LET par == PAR_MAP(par_type) IN
    IF par_type = "par3" /\ 2 * d[1] < level THEN 1
    ELSE IF par_type \in {"par4", "par5"} /\ d[1] < level
         THEN (IF par - 2 > 1 THEN par - 2 ELSE 1)
    ELSE IF d[2] < 50 * level THEN par
    ELSE IF d[3] < 25 * level THEN par + 1
    ELSE Min(par + d[4], MAX_DARTS)

hole_par_type(round_pars, hole_index) == round_pars[hole_index % HOLES_PER_ROUND]

\* float(pace_seconds) * PAR_TIME_FACTOR.get(par_type, 1.0)
base_time_for(par_type, pace_seconds) == (pace_seconds * PAR_TIME_FACTOR(par_type)) \div 10

(* ---------- players and the leaderboard ---------- *)
EmptyList == [n |-> 0, sum |-> 0]
ListAppend(l, x) == [n |-> l.n + 1, sum |-> l.sum + x]

NewPlayer(name, level, rnd) ==
    [Name |-> name, Level |-> level, Scores |-> EmptyList, ParScores |-> EmptyList,
     hole_in_round |-> 0, round_num |-> rnd]

\* sort_values(by=[Score vs Par, Thru, Total Darts, Name],
\*             ascending=[True, False, True, True]): p sorts strictly before q
RowBefore(p, q) ==
    \/ p.ParScores.sum < q.ParScores.sum
    \/ /\ p.ParScores.sum = q.ParScores.sum
       /\ \/ p.hole_in_round > q.hole_in_round
          \/ /\ p.hole_in_round = q.hole_in_round
             /\ \/ p.Scores.sum < q.Scores.sum
                \/ /\ p.Scores.sum = q.Scores.sum
                   /\ NameRank(p.Name) < NameRank(q.Name)

\* leaderboard_dataframe(players): the Name column in rank order (rows with
\* equal keys keep the order of the players list)
leaderboard_dataframe(players) ==
    LET n == Size(players)
        rank(i) == Cardinality({j \in 0..(n - 1) :
                       \/ RowBefore(players[j], players[i])
                       \/ (~RowBefore(players[i], players[j]) /\ j < i)})
    IN [r \in 1..n |-> players[CHOOSE i \in 0..(n - 1) : rank(i) = r - 1].Name]

all_finished_round(players) ==
    \A i \in DOMAIN players : players[i].hole_in_round >= HOLES_PER_ROUND

(* ---------- the session state ---------- *)
VARIABLES
    round_num,        \* current round, 1..NUM_ROUNDS+1
    players,          \* the roster: 0-based list of player records
    user_name,        \* the sidebar's "Your name"
    user_level,       \* the sidebar's "Your level"
    user_index,       \* roster index recorded for the human player
    auto_mode,        \* "Auto-play my shots"
    pace_seconds,     \* baseline seconds per hole (tenths)
    tee_interval,     \* gap between tee times (tenths)
    pairing_size,     \* group size, 2..4
    pairings,         \* 0-based list of pairings (sequences of roster indices)
    pairing_states,   \* 0-based list of pairing state records
    round_pars,       \* par class of each station this round
    holes_occupancy,  \* station -> occupying pairing index or None
    board_df,         \* leaderboard as of the last completion (names in rank order)
    eliminated,       \* the human player was removed by the cut
    pending_turn,     \* the outstanding human decision or NoTurn
    sim_time,         \* virtual clock (tenths)
    bots_df,          \* the loaded bots: sequence of (Name, Level) rows
    MAX_COMPLETIONS   \* per-tick completion batch limit (a tuning parameter)

vars == <<round_num, players, user_name, user_level, user_index, auto_mode,
          pace_seconds, tee_interval, pairing_size, pairings, pairing_states,
          round_pars, holes_occupancy, board_df, eliminated, pending_turn,
          sim_time, bots_df, MAX_COMPLETIONS>>

\* The session state as the dict the functions receive.
state ==
    [round_num |-> round_num, players |-> players, user_name |-> user_name,
     user_level |-> user_level, user_index |-> user_index, auto_mode |-> auto_mode,
     pace_seconds |-> pace_seconds, tee_interval |-> tee_interval,
     pairing_size |-> pairing_size, pairings |-> pairings,
     pairing_states |-> pairing_states, round_pars |-> round_pars,
     holes_occupancy |-> holes_occupancy, board_df |-> board_df,
     eliminated |-> eliminated, pending_turn |-> pending_turn,
     sim_time |-> sim_time, bots_df |-> bots_df,
     MAX_COMPLETIONS |-> MAX_COMPLETIONS]

\* The session state after an operation is the dict s.
Becomes(s) ==
    /\ round_num' = s.round_num
    /\ players' = s.players
    /\ user_name' = s.user_name
    /\ user_level' = s.user_level
    /\ user_index' = s.user_index
    /\ auto_mode' = s.auto_mode
    /\ pace_seconds' = s.pace_seconds
    /\ tee_interval' = s.tee_interval
    /\ pairing_size' = s.pairing_size
    /\ pairings' = s.pairings
    /\ pairing_states' = s.pairing_states
    /\ round_pars' = s.round_pars
    /\ holes_occupancy' = s.holes_occupancy
    /\ board_df' = s.board_df
    /\ eliminated' = s.eliminated
    /\ pending_turn' = s.pending_turn
    /\ sim_time' = s.sim_time
    /\ bots_df' = s.bots_df
    /\ MAX_COMPLETIONS' = s.MAX_COMPLETIONS

\* The session state is the dict s.
SessionIs(s) ==
    /\ round_num = s.round_num
    /\ players = s.players
    /\ user_name = s.user_name
    /\ user_level = s.user_level
    /\ user_index = s.user_index
    /\ auto_mode = s.auto_mode
    /\ pace_seconds = s.pace_seconds
    /\ tee_interval = s.tee_interval
    /\ pairing_size = s.pairing_size
    /\ pairings = s.pairings
    /\ pairing_states = s.pairing_states
    /\ round_pars = s.round_pars
    /\ holes_occupancy = s.holes_occupancy
    /\ board_df = s.board_df
    /\ eliminated = s.eliminated
    /\ pending_turn = s.pending_turn
    /\ sim_time = s.sim_time
    /\ bots_df = s.bots_df
    /\ MAX_COMPLETIONS = s.MAX_COMPLETIONS

(* ---------- course / pairings ---------- *)
\* Faulty variant: a short last group is left out
build_pairings_whole_groups(n, group_size, idxs) ==
    [k \in 0..((n \div group_size) - 1) |->
        SubSeq(idxs, k * group_size + 1, (k + 1) * group_size)]

\* build_pairings(players, group_size) for the shuffled index list idxs
build_pairings(n, group_size, idxs) ==
    [k \in 0..(((n + group_size - 1) \div group_size) - 1) |->
        SubSeq(idxs, k * group_size + 1, Min((k + 1) * group_size, n))]

\* Faulty variant: every pairing is taken to hold the human player
user_in_pairing_any(s, pairing) == TRUE

user_in_pairing(s, pairing) ==
    IF s.user_index # None
    THEN s.user_index \in SeqToSet(pairing)
    ELSE \E k \in 1..Len(pairing) : s.players[pairing[k]].Name = s.user_name

\* init_round_runtime(state) with the shuffled pars and the shuffled index list
\* Faulty variant: the first pairing is in the queue as soon as the round is
\* set up
fresh_pairing_state_released(s, i) ==
    [status |-> IF i = 0 THEN "queued" ELSE "pre_tee", next_hole |-> 0, timer |-> 0,
     queued_since |-> IF i = 0 THEN s.sim_time ELSE None, current_par_type |-> NoPar,
     current_par |-> None, current_finish |-> None,
     tee_time |-> s.sim_time + i * s.tee_interval, await_meta |-> NoMeta]

\* Lines 147-154: the state pairing i starts the round with
fresh_pairing_state(s, i) ==
    [status |-> "pre_tee", next_hole |-> 0, timer |-> 0,
     queued_since |-> None, current_par_type |-> NoPar,
     current_par |-> None, current_finish |-> None,
     tee_time |-> s.sim_time + i * s.tee_interval, await_meta |-> NoMeta]

\* init_round_runtime(state) with its two shuffles
init_round_runtime(s, pars, idxs) ==
    LET prs == build_pairings(Size(s.players), s.pairing_size, idxs)
    IN [s EXCEPT
          !.round_pars = pars,
          !.holes_occupancy = [h \in 0..(HOLES_PER_ROUND - 1) |-> None],
          !.pairings = prs,
          !.pairing_states = [i \in DOMAIN prs |-> fresh_pairing_state(s, i)]]

\* Faulty variant: a pairing is released only after its tee time has passed
try_queue_pairing_late(s, i) ==
    LET ps == s.pairing_states[i] IN
    IF ps.status = "pre_tee" /\ s.sim_time > ps.tee_time
    THEN [s EXCEPT !.pairing_states[i] =
              [ps EXCEPT !.status = "queued", !.queued_since = s.sim_time]]
    ELSE s

\* try_queue_pairing(state, i)
try_queue_pairing(s, i) ==
    LET ps == s.pairing_states[i] IN
    IF ps.status = "pre_tee" /\ s.sim_time >= ps.tee_time
    THEN [s EXCEPT !.pairing_states[i] =
              [ps EXCEPT !.status = "queued", !.queued_since = s.sim_time]]
    ELSE s

(* ---------- completion ---------- *)
\* The score line 165-166 gives player p: the supplied score for the player
\* named user_name in manual mode, the resolver's score otherwise.
score_for(s, p, par_type, user_score_if_needed, d) ==
    IF p.Name = s.user_name /\ ~s.auto_mode /\ user_score_if_needed # None
    THEN user_score_if_needed
    ELSE simulate_bot_score(p.Level, par_type, d)

\* Faulty variant: the result is appended but the station is not counted
record_result_uncounted(p, score, par) ==
    [p EXCEPT !.Scores = ListAppend(p.Scores, score),
              !.ParScores = ListAppend(p.ParScores, score - par)]

\* One result appended to a player (line 167).
record_result(p, score, par) ==
    [p EXCEPT !.Scores = ListAppend(p.Scores, score),
              !.ParScores = ListAppend(p.ParScores, score - par),
              !.hole_in_round = p.hole_in_round + 1]

\* _apply_scores_for_pairing_on_hole; draws[i] are the resolver's draws for player i
apply_scores_for_pairing_on_hole(s, pairing_index, par_type, par, user_score_if_needed, draws) ==
    LET pairing == s.pairings[pairing_index] IN
    [s EXCEPT !.players =
        [i \in DOMAIN s.players |->
            IF i \in SeqToSet(pairing)
            THEN record_result(s.players[i],
                     score_for(s, s.players[i], par_type, user_score_if_needed, draws[i]),
                     par)
            ELSE s.players[i]]]

\* Lines 191-196 and 210-215: the pairing moves on to its next station.
move_to_next_hole(ps, now, pars, u) ==
    LET nh == ps.next_hole + 1 IN
    IF nh >= HOLES_PER_ROUND
    THEN [ps EXCEPT !.next_hole = nh, !.status = "finished", !.timer = Inf]
    ELSE LET nxt == hole_par_type(pars, nh) IN
         [ps EXCEPT !.next_hole = nh, !.status = "queued",
                    !.queued_since = now, !.timer = 0,
                    !.current_par_type = nxt, !.current_par = PAR_MAP(nxt),
                    !.current_finish = generate_finish(nxt, u)]

\* Line 175: the completion is deferred to the human player.
must_await(s, pairing, user_score_if_needed) ==
    ~s.auto_mode /\ user_in_pairing(s, pairing) /\ user_score_if_needed = None

\* Lines 176-181: the suspended pairing state and the PendingTurn.
suspend_pairing(s, pairing_index) ==
    LET ps == s.pairing_states[pairing_index]
        hole == ps.next_hole
    IN [s EXCEPT
          !.pairing_states[pairing_index] =
              [ps EXCEPT !.status = "await_user", !.timer = 0,
                         !.await_meta = [hole |-> hole, par_type |-> ps.current_par_type,
                                         par |-> ps.current_par,
                                         finish |-> ps.current_finish]],
          !.pending_turn = [pairing_index |-> pairing_index,
                            hole_num_in_round |-> hole + 1,
                            par_type |-> ps.current_par_type,
                            par |-> ps.current_par, finish |-> ps.current_finish]]

\* Line 189: what a scored completion leaves in pending_turn.
pending_after_completion(s) == NoTurn

\* Faulty variant: the station is not given up
vacate_keeps(s, hole) == s

\* Line 174: the station is given up.
vacate(s, hole) == [s EXCEPT !.holes_occupancy[hole] = None]

\* complete_current_hole(state, pairing_index, user_score_if_needed)
complete_current_hole(s, pairing_index, user_score_if_needed, draws, u) ==
    LET ps == s.pairing_states[pairing_index]
        hole == ps.next_hole
        s1 == vacate(s, hole)
    IN
    IF must_await(s1, s1.pairings[pairing_index], user_score_if_needed)
    THEN suspend_pairing(s1, pairing_index)
    ELSE LET s2 == apply_scores_for_pairing_on_hole(s1, pairing_index,
                       ps.current_par_type, ps.current_par, user_score_if_needed, draws)
         IN [s2 EXCEPT
               !.pending_turn = pending_after_completion(s2),
               !.board_df = leaderboard_dataframe(s2.players),
               !.pairing_states[pairing_index] =
                   move_to_next_hole(ps, s2.sim_time, s2.round_pars, u)]

\* Line 201: the submission is taken only for a pairing that holds await_meta.
accepts_submission(s, pairing_index) ==
    s.pairing_states[pairing_index].await_meta # NoMeta

\* Faulty variant: await_meta is left in place
close_turn_not(ps) == ps

\* Line 209: ps["await_meta"] = None
close_turn(ps) == [ps EXCEPT !.await_meta = NoMeta]

\* submit_user_score_and_queue_next(state, pairing_index, user_score)
submit_user_score_and_queue_next(s, pairing_index, user_score, draws, u) ==
    LET ps == s.pairing_states[pairing_index]
        meta == ps.await_meta
    IN
    IF ~accepts_submission(s, pairing_index) THEN s
    ELSE LET s2 == apply_scores_for_pairing_on_hole(s, pairing_index,
                       meta.par_type, meta.par, user_score, draws)
         IN [s2 EXCEPT
               !.board_df = leaderboard_dataframe(s2.players),
               !.pending_turn = NoTurn,
               !.pairing_states[pairing_index] =
                   move_to_next_hole(close_turn(ps), s2.sim_time, s2.round_pars, u)]

(* ---------- allocation ---------- *)
\* Faulty variant: no queued pairing is entered for a station
want_none(s, hole) == {}

\* Lines 219-221: want[hole], the (queued_since, i) pairs of the pairings
\* queued for the station, as the set of their indices.
want(s, hole) ==
    {i \in DOMAIN s.pairing_states :
        /\ s.pairing_states[i].status = "queued"
        /\ s.pairing_states[i].next_hole < HOLES_PER_ROUND
        /\ s.pairing_states[i].next_hole = hole}

\* Faulty variant: the lowest pairing index is taken, whatever the queue times
first_in_queue_by_index(s, hole) ==
    CHOOSE i \in want(s, hole) : \A j \in want(s, hole) : i <= j

\* Line 225: the head of want[hole] after the stable sort on queued_since of a
\* list built in index order.
first_in_queue(s, hole) ==
    CHOOSE i \in want(s, hole) :
        \A j \in want(s, hole) :
            \/ s.pairing_states[i].queued_since < s.pairing_states[j].queued_since
            \/ /\ s.pairing_states[i].queued_since = s.pairing_states[j].queued_since
               /\ i <= j

\* Faulty variant: no station is given out while a pairing waits for its user
stations_to_fill_blocking(s) ==
    IF \E i \in DOMAIN s.pairing_states : s.pairing_states[i].status = "await_user"
    THEN {}
    ELSE {hole \in 0..(HOLES_PER_ROUND - 1) :
             s.holes_occupancy[hole] = None /\ want(s, hole) # {}}

\* Lines 223-224: the stations that get a pairing in this pass.
stations_to_fill(s) ==
    {hole \in 0..(HOLES_PER_ROUND - 1) :
        s.holes_occupancy[hole] = None /\ want(s, hole) # {}}

\* Faulty variant: the queue-entry time is kept on taking the station
put_on_hole_keeps_queue(ps, par_type, pace, u) ==
    [ps EXCEPT !.status = "on_hole", !.timer = base_time_for(par_type, pace),
               !.current_par_type = par_type,
               !.current_par = PAR_MAP(par_type),
               !.current_finish = generate_finish(par_type, u)]

\* Lines 226-229: pairing state on taking the station.
put_on_hole(ps, par_type, pace, u) ==
    [ps EXCEPT !.status = "on_hole", !.timer = base_time_for(par_type, pace),
               !.queued_since = None, !.current_par_type = par_type,
               !.current_par = PAR_MAP(par_type),
               !.current_finish = generate_finish(par_type, u)]

\* assign_holes(state); fin[i] is the generate_finish draw for pairing i.  The
\* want lists are built before the loop and every pairing is wanted by one
\* station only, so the stations are filled independently of each other.
assign_holes(s, fin) ==
    LET fill == stations_to_fill(s)
        winner == [hole \in fill |-> first_in_queue(s, hole)]
    IN [s EXCEPT
          !.holes_occupancy =
              [hole \in DOMAIN s.holes_occupancy |->
                  IF hole \in fill THEN winner[hole] ELSE s.holes_occupancy[hole]],
          !.pairing_states =
              [i \in DOMAIN s.pairing_states |->
                  IF \E hole \in fill : winner[hole] = i
                  THEN put_on_hole(s.pairing_states[i],
                           hole_par_type(s.round_pars, s.pairing_states[i].next_hole),
                           s.pace_seconds, fin[i])
                  ELSE s.pairing_states[i]]]

(* ---------- round transition ---------- *)
\* set(board_df.head(50)["Name"])
top_names(board) == {board[r] : r \in 1..Min(CUT_SIZE, Len(board))}

\* [p for p in players if p["Name"] in top]
keep_players(plist, top) ==
    LET kept == {i \in DOMAIN plist : plist[i].Name \in top}
        nth(k) == CHOOSE i \in kept : Cardinality({j \in kept : j < i}) = k
    IN [k \in 0..(Cardinality(kept) - 1) |-> plist[nth(k)]]

\* Faulty variant: the per-round station counts are left as they are
reset_round_cards_not(plist, rnd) ==
    [i \in DOMAIN plist |-> [plist[i] EXCEPT !.round_num = rnd]]

\* Lines 242-244: every player starts the round rnd with no station played
reset_round_cards(plist, rnd) ==
    [i \in DOMAIN plist |-> [plist[i] EXCEPT !.hole_in_round = 0, !.round_num = rnd]]

\* end_round_if_ready(state): the value returned and the state left
end_round_if_ready(s) ==
    IF ~all_finished_round(s.players) THEN [finished |-> FALSE, s |-> s]
    ELSE
      LET top == top_names(s.board_df)
          s1 == IF s.round_num = 2
                THEN LET kept == keep_players(s.players, top) IN
                     [s EXCEPT !.players = kept,
                               !.board_df = leaderboard_dataframe(kept),
                               !.eliminated = IF s.user_name \notin top
                                              THEN TRUE ELSE s.eliminated]
                ELSE s
          s2 == [s1 EXCEPT !.round_num = s1.round_num + 1]
      IN IF s2.round_num > NUM_ROUNDS THEN [finished |-> TRUE, s |-> s2]
         ELSE [finished |-> TRUE,
               s |-> [s2 EXCEPT !.players = reset_round_cards(s2.players, s2.round_num)]]

(* ---------- the tick ---------- *)
\* Line 253: try_queue_pairing for i = from .. len(pairings)-1
RECURSIVE queue_pairings(_, _)
queue_pairings(s, from) ==
    IF from >= Size(s.pairings) THEN s
    ELSE queue_pairings(try_queue_pairing(s, from), from + 1)

\* Faulty variant: the timers run at twice the speed of the clock
run_timers_double(s, dt) ==
    [s EXCEPT !.pairing_states =
        [i \in DOMAIN s.pairing_states |->
            LET ps == s.pairing_states[i] IN
            IF ps.status = "on_hole" /\ ps.timer # Inf
            THEN [ps EXCEPT !.timer = ps.timer - 2 * dt]
            ELSE ps]]

\* Lines 254-257: every slot subtracts dt from the timer of its on_hole occupant
run_timers(s, dt) ==
    [s EXCEPT !.pairing_states =
        [i \in DOMAIN s.pairing_states |->
            LET ps == s.pairing_states[i]
                slots == {h \in DOMAIN s.holes_occupancy : s.holes_occupancy[h] = i}
            IN IF ps.status = "on_hole" /\ ps.timer # Inf
               THEN [ps EXCEPT !.timer = ps.timer - dt * Cardinality(slots)]
               ELSE ps]]

\* Lines 259-262: the stations whose occupant is ready to complete
ready_holes(s) ==
    {h \in DOMAIN s.holes_occupancy :
        /\ s.holes_occupancy[h] # None
        /\ s.pairing_states[s.holes_occupancy[h]].status = "on_hole"
        /\ s.pairing_states[s.holes_occupancy[h]].timer <= 0}

\* Faulty variant: the sort is descending
ready_before_reversed(s, a, b) ==
    LET ta == s.pairing_states[s.holes_occupancy[a]].timer
        tb == s.pairing_states[s.holes_occupancy[b]].timer
    IN ta > tb \/ (ta = tb /\ a > b)

\* Line 263: ready.sort(key=timer) of a list built in station order: station a
\* comes before station b
ready_before(s, a, b) ==
    LET ta == s.pairing_states[s.holes_occupancy[a]].timer
        tb == s.pairing_states[s.holes_occupancy[b]].timer
    IN ta < tb \/ (ta = tb /\ a < b)

\* Line 264: ready[:MAX_COMPLETIONS], as the sequence of pairing indices
ready_batch(s) ==
    LET R == ready_holes(s)
        pos(h) == Cardinality({g \in R : ready_before(s, g, h)})
        n == Min(Cardinality(R), s.MAX_COMPLETIONS)
    IN [k \in 1..n |-> s.holes_occupancy[CHOOSE h \in R : pos(h) = k - 1]]

\* Lines 264-265: complete_current_hole(state, idx, None) for each of the batch
RECURSIVE complete_batch(_, _, _, _)
complete_batch(s, batch, draws, fin) ==
    IF batch = <<>> THEN s
    ELSE complete_batch(complete_current_hole(s, Head(batch), None, draws, fin[Head(batch)]),
                        Tail(batch), draws, fin)

\* tick_clock lines 252-265: clock, tee sheet, timers, completions
tick_first_half(s, dt, draws, fin) ==
    LET s1 == [s EXCEPT !.sim_time = s.sim_time + dt]
        s2 == queue_pairings(s1, 0)
        s3 == run_timers(s2, dt)
    IN complete_batch(s3, ready_batch(s3), draws, fin)

\* Faulty variant: only a negative dt is turned away
rejects_dt_negative(dt) == dt < 0

\* Line 251: if dt<=0: return
rejects_dt(dt) == dt <= 0

\* tick_clock lines 251-267: the value of end_round_if_ready and the state it
\* leaves; a dt <= 0 returns at once
tick_to_round_end(s, dt, draws, fin, fin2) ==
    IF rejects_dt(dt) THEN [finished |-> FALSE, s |-> s]
    ELSE end_round_if_ready(assign_holes(tick_first_half(s, dt, draws, fin), fin2))

\* tick_clock lines 268-269: the next round is set up
starts_next_round(r) == r.finished /\ r.s.round_num <= NUM_ROUNDS

\* tick_clock(state, dt) with all its draws
tick_clock(s, dt, draws, fin, fin2, pars, idxs) ==
    LET r == tick_to_round_end(s, dt, draws, fin, fin2) IN
    IF starts_next_round(r) THEN init_round_runtime(r.s, pars, idxs) ELSE r.s

(* ---------- recovery ---------- *)
\* Faulty variant: the scan finds nothing to restore
recoverable_none(s) == {}

\* Lines 276-281: the pairings the scan can restore the turn from
recoverable(s) ==
    {idx \in DOMAIN s.pairing_states :
        /\ s.pairing_states[idx].status = "await_user"
        /\ user_in_pairing(s, s.pairings[idx])
        /\ s.pairing_states[idx].await_meta # NoMeta}

\* recover_pending_turn_from_await(): the first such pairing gives the turn
recover_pending_turn_from_await(s) ==
    IF recoverable(s) = {} THEN s
    ELSE LET idx == CHOOSE i \in recoverable(s) : \A j \in recoverable(s) : i <= j
             meta == s.pairing_states[idx].await_meta
         IN [s EXCEPT !.pending_turn =
                [pairing_index |-> idx, hole_num_in_round |-> meta.hole + 1,
                 par_type |-> meta.par_type, par |-> meta.par, finish |-> meta.finish]]

(* ---------- starting a game ---------- *)
\* (s.user_name or "You").strip() for the names the model enters
player_name(name) ==
    CASE name = "" -> "You"
      [] name = " You" -> "You"
      [] OTHER -> name

\* start_new_game(bots_df) with the shuffles drawn by init_round_runtime
start_new_game(s, pars, idxs) ==
    LET nb == Len(s.bots_df)
        roster == [i \in 0..nb |->
                     IF i = 0
                     THEN NewPlayer(player_name(s.user_name), s.user_level, 1)
                     ELSE NewPlayer(s.bots_df[i].Name, s.bots_df[i].Level, 1)]
    IN init_round_runtime(
          [s EXCEPT !.round_num = 1, !.players = roster, !.user_index = 0,
                    !.board_df = leaderboard_dataframe(roster),
                    !.pending_turn = NoTurn, !.eliminated = FALSE,
                    !.sim_time = 0],
          pars, idxs)

\* The session before the first game (init_state) with the sidebar set to the
\* given values and bots of the given levels loaded.
session(levels, size, pace, tee, auto, limit) ==
    [round_num |-> 1, players |-> <<>>, user_name |-> "You", user_level |-> 20,
     user_index |-> None, auto_mode |-> auto, pace_seconds |-> pace,
     tee_interval |-> tee, pairing_size |-> size, pairings |-> <<>>,
     pairing_states |-> <<>>, round_pars |-> PAR_DISTRIBUTION,
     holes_occupancy |-> [h \in 0..(HOLES_PER_ROUND - 1) |-> None],
     board_df |-> <<>>, eliminated |-> FALSE, pending_turn |-> NoTurn,
     sim_time |-> 0,
     bots_df |-> [k \in 1..Len(levels) |-> [Name |-> FAKE_BOT_NAMES[k], Level |-> levels[k]]],
     MAX_COMPLETIONS |-> limit]

(* ---------- bounds on the inputs ---------- *)
\* bots in the field
NumBots == 2
\* MAX_COMPLETIONS as tick_clock sets it
SOURCE_MAX_COMPLETIONS == 24
\* tick_clock's dt: two rejected values, "Step 1s", and two seconds
DtChoices == {-10, 0, 10, 20}
\* the score form's number_input(1, MAX_DARTS): the top of the range
UserScores == {MAX_DARTS}
\* Levels of the loaded bots: the first plays level 10, the others level 20.
BotLevels(n) == [k \in 1..n |-> IF k = 1 THEN 10 ELSE 20]

(* ---------- actions ---------- *)
\* tick_clock(state, dt)
Tick(dt) ==
    IF rejects_dt(dt) THEN UNCHANGED vars
    ELSE
      /\ sim_time + dt <= MaxSimTime
      /\ LET pre == run_timers(queue_pairings([state EXCEPT !.sim_time = sim_time + dt], 0), dt)
             bset == SeqToSet(ready_batch(pre))
             scorers == UNION {SeqToSet(pairings[i]) :
                                 i \in {j \in bset : ~must_await(pre, pairings[j], None)}}
         IN \E draws \in [scorers -> DrawSample], fin \in [bset -> FinishDraws] :
              LET mid == complete_batch(pre, ready_batch(pre), draws, fin)
                  filled == {first_in_queue(mid, h) : h \in stations_to_fill(mid)}
              IN \E fin2 \in [filled -> FinishDraws] :
                   LET r == end_round_if_ready(assign_holes(mid, fin2)) IN
                   IF starts_next_round(r)
                   THEN \E pars \in ParShuffles, idxs \in Shuffles(Size(r.s.players)) :
                            Becomes(init_round_runtime(r.s, pars, idxs))
                   ELSE Becomes(r.s)

TickClock == \E dt \in DtChoices : Tick(dt)

\* submit_user_score_and_queue_next(state, pairing_index, user_score); an index
\* past the list raises IndexError and leaves the state as it was
Submit(pairing_index, user_score) ==
    IF pairing_index \notin DOMAIN pairing_states THEN UNCHANGED vars
    ELSE IF ~accepts_submission(state, pairing_index) THEN UNCHANGED vars
    ELSE \E draws \in [SeqToSet(pairings[pairing_index]) -> DrawSample], u \in FinishDraws :
            Becomes(submit_user_score_and_queue_next(state, pairing_index, user_score, draws, u))

SubmitUserScore ==
    \E pairing_index \in 0..Size(pairing_states), user_score \in UserScores :
        Submit(pairing_index, user_score)

\* the sidebar's "Auto-play my shots" checkbox
ToggleAuto == Becomes([state EXCEPT !.auto_mode = ~auto_mode])

\* The page is drawn again: lines 441-443
RecoverPendingTurn ==
    /\ pending_turn = NoTurn
    /\ Becomes(recover_pending_turn_from_await(state))

Next == TickClock \/ SubmitUserScore \/ ToggleAuto \/ RecoverPendingTurn

\* A game just started: the user and the given bots, pairs, the given pace,
\* tee interval 1.0 s.
GameStarted(levels, pace, limit) ==
    \E auto \in BOOLEAN, pars \in ParShuffles, idxs \in Shuffles(Len(levels) + 1) :
        SessionIs(start_new_game(session(levels, 2, pace, 10, auto, limit), pars, idxs))

\* pace 1.0 s
Brisk == 10

\* A championship with the source's batch limit.
Init == GameStarted(BotLevels(NumBots), Brisk, SOURCE_MAX_COMPLETIONS)

Spec == Init /\ [][Next]_vars

\* the batch limit of the specification that lets completions queue up
BatchLimit == 1

\* The same championship with the batch limit below the number of stations.
InitBatch == GameStarted(BotLevels(NumBots), Brisk, BatchLimit)

SpecBatch == InitBatch /\ [][Next]_vars

\* the bots of the specification with three pairings
QueueBots == 4
\* pace 5.0 s: a station is held over several ticks
Slow == 50

\* A championship of three pairings at a slow pace, in which a pairing waits
\* for a station over several calls.
InitQueue == GameStarted(BotLevels(QueueBots), Slow, SOURCE_MAX_COMPLETIONS)

SpecQueue == InitQueue /\ [][Next]_vars

\* Scenario 1: a new game of nine players (eight bots) in groups of three
\* with a tee interval of 5.0 s.
InitScenario ==
    \E auto \in BOOLEAN, pars \in ParShuffles, idxs \in Shuffles(9) :
        SessionIs(start_new_game(
            session(BotLevels(8), 3, Slow, 50, auto, SOURCE_MAX_COMPLETIONS),
            pars, idxs))

SpecScenario == InitScenario /\ [][Next]_vars

\* What the user may have typed into "Your name": the default, nothing, and
\* the name of the first bot.
UserNames == {"You", "", "Alfie Johnson"}

\* The championship of Init with the name field set to any of UserNames.
InitNames ==
    \E name \in UserNames, auto \in BOOLEAN, pars \in ParShuffles,
       idxs \in Shuffles(NumBots + 1) :
        SessionIs(start_new_game(
            [session(BotLevels(NumBots), 2, Brisk, 10, auto, SOURCE_MAX_COMPLETIONS)
                EXCEPT !.user_name = name],
            pars, idxs))

SpecNames == InitNames /\ [][Next]_vars

\* The values of the sidebar's "Pairing size" slider (2 to 4) the model uses.
PairingSizes == {2, 3}

\* The "Pairing size" slider is moved (line 370): the widget writes
\* session_state.pairing_size at once, the pairings are built from it when the
\* next round is set up.
SetPairingSize ==
    \E size \in PairingSizes :
        /\ size # pairing_size
        /\ Becomes([state EXCEPT !.pairing_size = size])

NextSizes == Next \/ SetPairingSize

\* The championship of Init started with any of the pairing sizes.
InitSizes ==
    \E size \in PairingSizes, auto \in BOOLEAN, pars \in ParShuffles,
       idxs \in Shuffles(NumBots + 1) :
        SessionIs(start_new_game(
            session(BotLevels(NumBots), size, Brisk, 10, auto, SOURCE_MAX_COMPLETIONS),
            pars, idxs))

\* The championship with the pairing size slider moved along the way.
SpecSizes == InitSizes /\ [][NextSizes]_vars

(* ---------- save and load ---------- *)
\* export_state_json(): the saved document, a function on the names of its
\* fields (the fields the model keeps)
export_state_json(s) ==
    [round_num |-> s.round_num, players |-> s.players, user_name |-> s.user_name,
     user_level |-> s.user_level, auto_mode |-> s.auto_mode,
     pace_seconds |-> s.pace_seconds, tee_interval |-> s.tee_interval,
     pairing_size |-> s.pairing_size, pairings |-> s.pairings,
     pairing_states |-> s.pairing_states, round_pars |-> s.round_pars,
     holes_occupancy |-> s.holes_occupancy, board |-> s.board_df,
     eliminated |-> s.eliminated, pending_turn |-> s.pending_turn,
     sim_time |-> s.sim_time, user_index |-> s.user_index]

\* data.get(field, default)
get(data, field, default) == IF field \in DOMAIN data THEN data[field] ELSE default

\* Line 322: the index of the first player called user_name, None without one
index_by_name(plist, name) ==
    LET hits == {i \in DOMAIN plist : plist[i].Name = name} IN
    IF hits = {} THEN None ELSE CHOOSE i \in hits : \A j \in hits : i <= j

\* Line 312: data.get("holes_occupancy", [None]*HOLES_PER_ROUND)
loaded_slots(s, data) ==
    get(data, "holes_occupancy", [h \in 0..(HOLES_PER_ROUND - 1) |-> None])

\* import_state_json(txt) for the parsed document data.  data["round_num"],
\* data["players"] and data["user_name"] raise KeyError when missing, after
\* the fields before them have been installed; every other field has a
\* default (None for pairing_states, kept as the empty list like init_state's).
import_state_json(s, data) ==
    IF "round_num" \notin DOMAIN data THEN s
    ELSE IF "players" \notin DOMAIN data
         THEN [s EXCEPT !.round_num = data["round_num"]]
    ELSE IF "user_name" \notin DOMAIN data
         THEN [s EXCEPT !.round_num = data["round_num"], !.players = data["players"]]
    ELSE
      LET plist == data["players"]
          board == get(data, "board", <<>>)
          ui == get(data, "user_index", None)
      IN [s EXCEPT
            !.round_num = data["round_num"],
            !.players = plist,
            !.user_name = data["user_name"],
            !.user_level = get(data, "user_level", 20),
            !.auto_mode = get(data, "auto_mode", TRUE),
            !.pace_seconds = get(data, "pace_seconds", 30),
            !.tee_interval = get(data, "tee_interval", 50),
            !.pairing_size = get(data, "pairing_size", 3),
            !.pairings = get(data, "pairings", <<>>),
            !.pairing_states = get(data, "pairing_states", <<>>),
            !.round_pars = get(data, "round_pars", PAR_DISTRIBUTION),
            !.holes_occupancy = loaded_slots(s, data),
            !.board_df = IF board = <<>> /\ Size(plist) > 0
                         THEN leaderboard_dataframe(plist) ELSE board,
            !.eliminated = get(data, "eliminated", FALSE),
            !.pending_turn = get(data, "pending_turn", NoTurn),
            !.sim_time = get(data, "sim_time", 0),
            !.user_index = IF ui = None THEN index_by_name(plist, data["user_name"])
                           ELSE ui]

\* the document data without the fields of the set dropped
Without(data, dropped) == [f \in DOMAIN data \ dropped |-> data[f]]

\* The saves the model loads: the save of the current state as it is, without
\* its station slots, and without its par sequence.
SavesLoaded == {{}, {"holes_occupancy"}, {"round_pars"}}

\* saves are loaded up to this sim time
LoadBy == 20

\* "Load save (JSON)": lines 407-410
ImportState ==
    \E dropped \in SavesLoaded :
        /\ sim_time <= LoadBy
        /\ Becomes(import_state_json(state, Without(export_state_json(state), dropped)))

NextImport == Next \/ ImportState

\* The championship of Init with saves loaded along the way.
SpecImport == Init /\ [][NextImport]_vars

(* ---------- a session in which no score is ever submitted ---------- *)
TickForward == \E dt \in DtChoices : dt > 0 /\ Tick(dt)

NextNoSubmit == TickClock \/ ToggleAuto \/ RecoverPendingTurn

\* the least dt that advances the clock
MinDt == CHOOSE d \in DtChoices : d > 0 /\ \A e \in DtChoices : e > 0 => d <= e

\* tick_clock keeps being called with dt > 0 for as long as the clock of the
\* model runs: weak fairness of TickForward, WF_vars(TickForward), written out
\* with ENABLED <<TickForward>>_vars as the state predicate it amounts to.
LiveSpec ==
    /\ Init /\ [][NextNoSubmit]_vars
    /\ ([]<>(sim_time + MinDt > MaxSimTime) \/ []<><<TickForward>>_vars)

(* ---------- a championship played to the end ---------- *)
\* A tick has something to move: the championship is not over and some pairing
\* waits for its tee time, for a station or for its timer, or the round is
\* ready to end.
clock_has_work(s) ==
    /\ s.round_num <= NUM_ROUNDS
    /\ \/ \E i \in DOMAIN s.pairing_states :
             s.pairing_states[i].status \in {"pre_tee", "queued", "on_hole"}
       \/ \A i \in DOMAIN s.pairing_states : s.pairing_states[i].status = "finished"

\* tick_clock(state, dt) with dt > 0 while the clock has work
TickPlay == \E dt \in DtChoices : dt > 0 /\ clock_has_work(state) /\ Tick(dt)

\* tick_clock keeps being called with dt > 0 for as long as the clock of the
\* model runs and has work: weak fairness of TickPlay, written out as for
\* LiveSpec.
SpecPlay ==
    /\ Init /\ [][Next]_vars
    /\ \/ []<>(~clock_has_work(state) \/ sim_time + MinDt > MaxSimTime)
       \/ []<><<TickPlay>>_vars

(* ---------- vocabulary of the properties ---------- *)
Pairs == DOMAIN pairing_states
Status(i) == pairing_states[i].status
Members(i) == SeqToSet(pairings[i])
OnHole == {i \in Pairs : Status(i) = "on_hole"}
Awaiting == {i \in Pairs : Status(i) = "await_user"}
\* the pairings that hold the player the user plays
HumanPairs ==
    {i \in Pairs : \E m \in Members(i) :
        m \in DOMAIN players /\ players[m].Name = player_name(user_name)}
\* the step is a tick_clock call that advanced the clock
Ticked == sim_time' > sim_time
\* the PendingTurn that names pairing i suspended with the metadata meta
TurnOf(i, meta) ==
    [pairing_index |-> i, hole_num_in_round |-> meta.hole + 1,
     par_type |-> meta.par_type, par |-> meta.par, finish |-> meta.finish]

(* ---------- C1 ---------- *)
\* C1: every occupied station holds the index of an existing pairing that is
\* on_hole with next_hole equal to the station, every on_hole pairing occupies
\* exactly one station, and at most HOLES_PER_ROUND pairings are on_hole.
C1_Occupancy ==
    /\ \A h \in DOMAIN holes_occupancy :
          holes_occupancy[h] # None =>
              /\ holes_occupancy[h] \in Pairs
              /\ Status(holes_occupancy[h]) = "on_hole"
              /\ pairing_states[holes_occupancy[h]].next_hole = h
    /\ \A i \in OnHole :
          Cardinality({h \in DOMAIN holes_occupancy : holes_occupancy[h] = i}) = 1
    /\ Cardinality(OnHole) <= HOLES_PER_ROUND

\* two pairings are on the course at once, one of them past the first station
C1_Witness ==
    \E i, j \in OnHole : i # j /\ pairing_states[i].next_hole > 0

(* ---------- C2 ---------- *)
\* C2: at most one pairing has status await_user.
C2_OneAwaiting == Cardinality(Awaiting) <= 1

\* a pairing is suspended in a later round while another pairing is playing
C2_Witness == round_num >= 2 /\ Awaiting # {} /\ OnHole # {}

(* ---------- C3 ---------- *)
\* the suspension of pairing k: await_user, off its station, no result
\* appended, hole_in_round and next_hole as they were, the metadata frozen
C3_Suspends(k) ==
    LET ps == pairing_states[k]
        par_type == hole_par_type(round_pars, ps.next_hole)
    IN /\ pairing_states'[k].status = "await_user"
       /\ holes_occupancy'[ps.next_hole] # k
       /\ \A m \in Members(k) :
             /\ players'[m].Scores = players[m].Scores
             /\ players'[m].ParScores = players[m].ParScores
             /\ players'[m].hole_in_round = players[m].hole_in_round
       /\ pairing_states'[k].next_hole = ps.next_hole
       /\ pairing_states'[k].await_meta.par_type = par_type
       /\ pairing_states'[k].await_meta.par = PAR_MAP(par_type)

\* a tick in manual mode finds the human player's pairing k on_hole with its
\* timer run out
C3_DueInManual(k) ==
    /\ Ticked
    /\ ~auto_mode
    /\ k \in HumanPairs
    /\ Status(k) = "on_hole"
    /\ pairing_states[k].timer - (sim_time' - sim_time) <= 0

\* C3: a tick in manual mode that finds the human player's pairing on_hole
\* with its timer run out leaves it await_user and off its station, with the
\* PendingTurn of that pairing and station recorded, no result appended and
\* hole_in_round and next_hole as they were.
C3_TickSuspends ==
    [][\A k \in Pairs :
          C3_DueInManual(k) =>
              /\ C3_Suspends(k)
              /\ pending_turn'.pairing_index = k
              /\ pending_turn'.hole_num_in_round = pairing_states[k].next_hole + 1
              /\ pending_turn'.par_type = hole_par_type(round_pars, pairing_states[k].next_hole)
              /\ pending_turn'.par = PAR_MAP(pending_turn'.par_type)]_vars

(* ---------- C4 ---------- *)
\* the latest suspension the liveness property follows to the end
SuspendedBy == 40

\* C4: once the human player's pairing is suspended (by sim time SuspendedBy)
\* and no score is submitted, ticks with dt > 0 bring every other pairing of
\* the round to finished.
C4_OthersFinish ==
    (Awaiting # {} /\ sim_time <= SuspendedBy)
        ~> (\A i \in Pairs \ Awaiting : Status(i) = "finished")

\* the human pairing is still suspended and another pairing has finished
C4_Witness ==
    /\ Awaiting # {}
    /\ Pairs \ Awaiting # {}
    /\ \A i \in Pairs \ Awaiting : Status(i) = "finished"

(* ---------- C5 ---------- *)
\* C5: while a pairing is await_user, pending_turn is the PendingTurn recorded
\* at its suspension: that pairing, its station and the frozen metadata.
C5_TurnKept ==
    \A i \in Awaiting : pending_turn = TurnOf(i, pairing_states[i].await_meta)

(* ---------- C6 ---------- *)
\* the effect of the one completion of the suspended station of pairing k
C6_Completes(k) ==
    LET ps == pairing_states[k]
        after == pairing_states'[k]
    IN /\ \A m \in DOMAIN players :
             IF m \in Members(k)
             THEN /\ players'[m].Scores.n = players[m].Scores.n + 1
                  /\ players'[m].ParScores.n = players[m].ParScores.n + 1
                  /\ players'[m].hole_in_round = players[m].hole_in_round + 1
             ELSE players'[m] = players[m]
       /\ after.next_hole = ps.next_hole + 1
       /\ pending_turn' = NoTurn
       /\ after.await_meta = NoMeta
       /\ sim_time' = sim_time
       /\ IF after.next_hole >= HOLES_PER_ROUND
          THEN after.status = "finished"
          ELSE after.status = "queued" /\ after.queued_since = sim_time

\* nothing is recorded for pairing k
C6_Untouched(k) ==
    /\ pairing_states'[k] = pairing_states[k]
    /\ \A m \in Members(k) : players'[m] = players[m]

\* C6: a step leaves a suspended pairing and its players as they were, or it
\* is the accepted submission and completes the station exactly once (and is
\* no tick); a submission for a pairing that is not suspended changes nothing.
C6_OneCompletion ==
    [][/\ \A k \in Awaiting : C6_Untouched(k) \/ (~Ticked /\ C6_Completes(k))
       /\ \A k \in Pairs \ Awaiting, sc \in UserScores :
             Submit(k, sc) => UNCHANGED vars]_vars

\* a submission has just been taken: the human player's pairing is queued as
\* of now and the submitted strokes are on the human player's card
C6_Witness ==
    \E k \in HumanPairs :
        /\ Status(k) = "queued"
        /\ pairing_states[k].queued_since = sim_time
        /\ pairing_states[k].await_meta = NoMeta
        /\ pending_turn = NoTurn
        /\ \E m \in Members(k) :
              /\ players[m].Name = player_name(user_name)
              /\ players[m].ParScores.sum > 0
              /\ players[m].hole_in_round = pairing_states[k].next_hole

(* ---------- C7 ---------- *)
\* C7: an accepted submission appends the submitted score (and that score
\* minus the frozen par) for the human player and a resolver score for every
\* other member of the pairing.
C7_SubmittedScoreCounts ==
    [][\A k \in Awaiting, sc \in UserScores :
          Submit(k, sc) =>
              \A m \in Members(k) :
                  LET meta == pairing_states[k].await_meta
                      strokes == players'[m].Scores.sum - players[m].Scores.sum
                      delta == players'[m].ParScores.sum - players[m].ParScores.sum
                  IN IF players[m].Name = player_name(user_name)
                     THEN strokes = sc /\ delta = sc - meta.par
                     ELSE /\ strokes \in {simulate_bot_score(players[m].Level, meta.par_type, d) :
                                             d \in DrawSample}
                          /\ delta = strokes - meta.par]_vars

(* ---------- C8 ---------- *)
\* C8: a submission made while no PendingTurn is outstanding, or for a pairing
\* other than the one the PendingTurn names, leaves the whole state unchanged.
C8_RejectedUnchanged ==
    [][\A k \in 0..Size(pairing_states), sc \in UserScores :
          ((pending_turn = NoTurn \/ pending_turn.pairing_index # k) /\ Submit(k, sc))
              => UNCHANGED vars]_vars

(* ---------- C9 ---------- *)
\* when pairing b entered the queue it is taken from in this step
C9_QueuedAt(b) ==
    IF Status(b) = "queued" THEN pairing_states[b].queued_since ELSE sim_time'

\* pairing b is put on a station in this step
C9_Assigned(b) ==
    /\ round_num' = round_num
    /\ pairing_states'[b].status = "on_hole"
    /\ (Status(b) # "on_hole" \/ pairing_states'[b].next_hole # pairing_states[b].next_hole)

\* C9: a pairing is put on a station only ahead of the pairings left queued
\* for that station: it entered the queue before them, or at the same time
\* with the smaller pairing index.
C9_Fifo ==
    [][\A a, b \in Pairs :
          (/\ a # b
           /\ C9_Assigned(b)
           /\ pairing_states'[a].status = "queued"
           /\ pairing_states'[a].next_hole = pairing_states'[b].next_hole)
          => \/ C9_QueuedAt(b) < pairing_states'[a].queued_since
             \/ /\ C9_QueuedAt(b) = pairing_states'[a].queued_since
                /\ b < a]_vars

\* pairing a has just been put on the station that pairing b, of the smaller
\* index and queued before this tick, is waiting for: a was queued earlier
C9_Witness ==
    \E a, b \in Pairs :
        /\ b < a
        /\ Status(a) = "on_hole"
        /\ pairing_states[a].timer =
              base_time_for(pairing_states[a].current_par_type, pace_seconds)
        /\ Status(b) = "queued"
        /\ pairing_states[b].next_hole = pairing_states[a].next_hole
        /\ pairing_states[b].queued_since < sim_time

(* ---------- C10 ---------- *)
\* draws for evaluating a tick whose scores and targets do not matter
AnyDraws == [i \in DOMAIN players |-> CHOOSE d \in DrawSample : TRUE]
AnyFinish == [i \in Pairs |-> CHOOSE u \in FinishDraws : TRUE]

\* pairings left on their station with the timer run out by an earlier tick
C10_Leftover == {k \in OnHole : pairing_states[k].timer <= 0}
\* pairings ready in a tick of dt
C10_Ready(dt) == {k \in OnHole : pairing_states[k].timer - dt <= 0}
\* pairing k is still on the station it was on
C10_StillOn(k) ==
    /\ round_num' = round_num
    /\ pairing_states'[k].status = "on_hole"
    /\ pairing_states'[k].next_hole = pairing_states[k].next_hole
\* pairing a is ahead of pairing b in the order (timer, station)
C10_Ahead(a, b) ==
    \/ pairing_states[a].timer < pairing_states[b].timer
    \/ /\ pairing_states[a].timer = pairing_states[b].timer
       /\ pairing_states[a].next_hole < pairing_states[b].next_hole

\* a tick completes min(L, ready) pairings, the first in the order (timer,
\* station); the others stay on_hole and ready
C10_BatchStep ==
    Ticked =>
        LET dt == sim_time' - sim_time
            R == C10_Ready(dt)
            left == {k \in R : C10_StillOn(k)}
        IN /\ Cardinality(R \ left) = Min(Cardinality(R), MAX_COMPLETIONS)
           /\ \A a \in R \ left, b \in left : C10_Ahead(a, b)
           /\ \A b \in left : pairing_states'[b].timer = pairing_states[b].timer - dt

C11_TickDelta ==
    [][/\ sim_time' >= sim_time
       /\ \A dt \in DtChoices :
             IF dt <= 0 THEN Tick(dt) => UNCHANGED vars
             ELSE sim_time' = sim_time + dt \/ ~Tick(dt)]_vars

\* the clock has run and a queued pairing has its station free: a call that
\* went on past the dt test would put it on the station
C11_Witness ==
    /\ sim_time > 0
    /\ \E i \in Pairs :
          /\ Status(i) = "queued"
          /\ holes_occupancy[pairing_states[i].next_hole] = None

(* ---------- C12 ---------- *)
\* the tee sheet of the round: pairing i tees off i * tee_interval after
\* pairing 0, whose tee time is the sim time at which the round was set up,
\* and no pairing is past pre_tee before its tee time
C12_Sheet ==
    /\ \A i \in Pairs :
          /\ pairing_states[i].tee_time = pairing_states[0].tee_time + i * tee_interval
          /\ Status(i) # "pre_tee" => sim_time >= pairing_states[i].tee_time
    /\ Status(0) = "pre_tee" => pairing_states[0].tee_time = sim_time

\* a step takes a pre_tee pairing i off the tee exactly when it is a tick that
\* brings sim_time to its tee time or past it, and then it entered the queue at
\* that sim time
C12_Release(i) ==
    (Status(i) = "pre_tee" /\ round_num' = round_num) =>
        IF Ticked /\ sim_time' >= pairing_states[i].tee_time
        THEN /\ pairing_states'[i].status \in {"queued", "on_hole"}
             /\ pairing_states'[i].status = "queued" =>
                   pairing_states'[i].queued_since = sim_time'
             /\ pairing_states'[i].next_hole = 0
        ELSE pairing_states'[i] = pairing_states[i]

\* C12: at round (re)initialization pairing i gets tee_time = sim_time at the
\* round start + i * tee_interval; a pairing leaves pre_tee exactly at the
\* first tick whose resulting sim_time is >= its tee_time, with queued_since
\* that sim_time; no pairing is past pre_tee while sim_time < its tee_time.
C12_TeeSheet ==
    [][C12_Sheet /\ C12_Sheet' /\ \A i \in Pairs : C12_Release(i)]_vars

\* in a round set up by a tick, a pairing behind the first has just come off
\* the tee and waits for the first station
C12_Witness ==
    /\ round_num >= 2
    /\ pairing_states[0].tee_time > 0
    /\ \E i \in Pairs :
          /\ i > 0
          /\ Status(i) = "queued"
          /\ pairing_states[i].next_hole = 0
          /\ pairing_states[i].queued_since = sim_time
          /\ sim_time >= pairing_states[i].tee_time

(* ---------- C13 ---------- *)
\* C13: a new game with 9 players, group size 3 and tee interval 5 has
\* exactly 3 pairings with tee times 0, 5 and 10, and at sim time 0 the first
\* pairing is queued while the other two are pre_tee.
C13_Scenario1 ==
    sim_time = 0 =>
        /\ Size(players) = 9
        /\ Pairs = 0..2
        /\ \A i \in Pairs : Cardinality(Members(i)) = 3
        /\ \A i \in Pairs : pairing_states[i].tee_time = i * 50
        /\ Status(0) = "queued"
        /\ Status(1) = "pre_tee"
        /\ Status(2) = "pre_tee"

(* ---------- C14 ---------- *)
\* the player the user plays: the one entered under the user's name and
\* level (no bot of the model has both)
IsHuman(p) == p.Name = player_name(user_name) /\ p.Level = user_level

\* the roster plist cut to its first CUT_SIZE players in the leaderboard
\* ordering (score vs par, total strokes, name), in roster order
C14_TopOf(plist) ==
    LET n == Size(plist)
        before(p, q) ==
            \/ p.ParScores.sum < q.ParScores.sum
            \/ /\ p.ParScores.sum = q.ParScores.sum
               /\ \/ p.Scores.sum < q.Scores.sum
                  \/ /\ p.Scores.sum = q.Scores.sum
                     /\ NameRank(p.Name) < NameRank(q.Name)
        rank(i) == Cardinality({j \in 0..(n - 1) :
                       \/ before(plist[j], plist[i])
                       \/ (~before(plist[i], plist[j]) /\ j < i)})
        kept == {i \in 0..(n - 1) : rank(i) < Min(CUT_SIZE, n)}
        nth(k) == CHOOSE i \in kept : Cardinality({j \in kept : j < i}) = k
    IN [k \in 0..(Cardinality(kept) - 1) |-> plist[nth(k)]]

\* who is on the roster, whatever the cards say
C14_Names(plist) == [i \in DOMAIN plist |-> <<plist[i].Name, plist[i].Level>>]

\* the round is complete: the round transition of the next tick leaves the
\* top of the leaderboard as the roster after round 2, the whole roster after
\* any other round
C14_Transition ==
    all_finished_round(players) =>
        LET after == end_round_if_ready(state).s.players IN
        IF round_num = 2
        THEN C14_Names(after) = C14_Names(C14_TopOf(players))
        ELSE C14_Names(after) = C14_Names(players)

\* C14: when round 2 ends the roster becomes exactly the top min(50, previous
\* size) players of the leaderboard ordering; every other round transition
\* and every tick or submission outside a round transition leaves the roster
\* as it was.
C14_Roster ==
    /\ []C14_Transition
    /\ [][(round_num' = round_num \/ round_num # 2) =>
             C14_Names(players') = C14_Names(players)]_vars

(* ---------- C15 ---------- *)
\* the state a tick leaves when it has set up the next round
C15_FreshRound ==
    /\ \A m \in DOMAIN players' :
          players'[m].hole_in_round = 0 /\ players'[m].round_num = round_num'
    /\ \A h \in DOMAIN holes_occupancy' : holes_occupancy'[h] = None
    /\ \A i \in DOMAIN pairing_states' :
          /\ pairing_states'[i].status = "pre_tee"
          /\ pairing_states'[i].next_hole = 0
          /\ pairing_states'[i].await_meta = NoMeta
          /\ pairing_states'[i].tee_time = sim_time' + i * tee_interval
    /\ DOMAIN pairing_states' = DOMAIN pairings'
    /\ pending_turn' = NoTurn

\* C15: a round ends only in a tick and only when every player has played all
\* HOLES_PER_ROUND stations of it; when it ends with rounds remaining the same
\* tick adds exactly 1 to round_num, resets every surviving player's
\* hole_in_round, empties every slot and leaves fresh pairing states (pre_tee,
\* next_hole 0, no await_meta, tee times from the current sim_time) and no
\* PendingTurn.
C15_RoundReinit ==
    [][(round_num' # round_num /\ round_num <= NUM_ROUNDS) =>
          /\ Ticked
          /\ round_num' = round_num + 1
          /\ \A m \in DOMAIN players' :
                players'[m].Scores.n = round_num * HOLES_PER_ROUND
          /\ round_num' <= NUM_ROUNDS => C15_FreshRound]_vars

\* the tick that ended round 2 has set up round 3 for the survivors of the cut
C15_Witness ==
    /\ round_num = 3
    /\ sim_time > 0
    /\ \A i \in Pairs :
          Status(i) = "pre_tee" /\ pairing_states[i].tee_time = sim_time + i * tee_interval
    /\ \A m \in DOMAIN players : players[m].hole_in_round = 0

\* the new game of scenario 1, before the clock has moved: nine players in
\* three pairings of three with tee times 0, 5 and 10, all of them pre_tee
C13_AtStart ==
    /\ Size(players) = 9
    /\ Pairs = 0..2
    /\ \A i \in Pairs : Cardinality(Members(i)) = 3
    /\ \A i \in Pairs : pairing_states[i].tee_time = i * 50
    /\ \A i \in Pairs : Status(i) = "pre_tee"

\* C13 (as amended): the new game has exactly 3 pairings with tee times 0, 5
\* and 10, all pre_tee at sim time 0; the first tick with dt > 0 takes the
\* first pairing off the tee and leaves the other two pre_tee until their tee
\* times.
C13_FirstTick ==
    [][sim_time = 0 =>
          /\ C13_AtStart
          /\ Ticked =>
                /\ pairing_states'[0].status # "pre_tee"
                /\ \A i \in Pairs \ {0} :
                      sim_time' < pairing_states[i].tee_time =>
                          pairing_states'[i].status = "pre_tee"]_vars

\* the first tick of scenario 1 has been made: the first pairing plays, the
\* other two wait for their tee times
C13_Witness ==
    /\ Size(players) = 9
    /\ sim_time > 0
    /\ sim_time < 50
    /\ Status(0) = "on_hole"
    /\ Status(1) = "pre_tee"
    /\ Status(2) = "pre_tee"

(* ---------- C16 ---------- *)
\* C16: once the last round has ended round_num is NUM_ROUNDS + 1, and every
\* later step leaves round_num, the roster, the pairings, the pairing states
\* and the station slots as they are.
C16_Finished ==
    [][round_num > NUM_ROUNDS =>
          /\ round_num = NUM_ROUNDS + 1
          /\ round_num' = round_num
          /\ C14_Names(players') = C14_Names(players)
          /\ pairings' = pairings
          /\ pairing_states' = pairing_states
          /\ holes_occupancy' = holes_occupancy]_vars

(* ---------- C17 ---------- *)
\* the player the user plays is on the roster plist
C17_OnRoster(plist) == \E m \in DOMAIN plist : IsHuman(plist[m])

\* the step is the round-2 cut and it takes the human player off the roster
C17_CutRemovesHuman ==
    /\ round_num = 2
    /\ round_num' = 3
    /\ C17_OnRoster(players)
    /\ ~C17_OnRoster(players')

\* C17: the elimination flag becomes true exactly in the step in which the
\* round-2 cut removes the human player from the roster, and once true it
\* stays true.
C17_Elimination ==
    [][/\ (~eliminated /\ eliminated') <=> (~eliminated /\ C17_CutRemovesHuman)
       /\ eliminated => eliminated']_vars

(* ---------- C18 ---------- *)
\* pairing i is await_user after the step and was not before it
C18_Enters(i) ==
    /\ pairing_states'[i].status = "await_user"
    /\ ~(round_num' = round_num /\ i \in Pairs /\ Status(i) = "await_user")

\* C18: a pairing enters await_user only if auto_mode is off and the pairing
\* contains the human player, in every round, the rounds after the cut
\* included.
C18_AwaitOnlyHuman ==
    [][\A i \in DOMAIN pairing_states' :
          C18_Enters(i) =>
              /\ ~auto_mode
              /\ \E m \in SeqToSet(pairings'[i]) : IsHuman(players'[m])]_vars

(* ---------- C19 ---------- *)
\* the state recover_pending_turn_from_await() leaves
C19_Recovered == recover_pending_turn_from_await(state)

\* C19: with pending_turn null and the human player's pairing await_user with
\* its await_meta, recover_pending_turn_from_await sets pending_turn to that
\* pairing's index, await_meta.hole + 1, par_type, par and finish, which is
\* the PendingTurn recorded at the suspension wherever that is still there;
\* running it twice gives what running it once gives, and it changes nothing
\* but pending_turn.
C19_Recovery ==
    /\ \A i \in Awaiting :
          (\E m \in Members(i) : IsHuman(players[m])) =>
              /\ pairing_states[i].await_meta # NoMeta
              /\ pairing_states[i].await_meta.hole = pairing_states[i].next_hole
              /\ pending_turn = NoTurn =>
                    C19_Recovered.pending_turn = TurnOf(i, pairing_states[i].await_meta)
              /\ pending_turn # NoTurn => C19_Recovered.pending_turn = pending_turn
    /\ recover_pending_turn_from_await(C19_Recovered) = C19_Recovered
    /\ C19_Recovered = [state EXCEPT !.pending_turn = C19_Recovered.pending_turn]

\* the human player's pairing is suspended and its PendingTurn has been lost
C19_Witness ==
    /\ pending_turn = NoTurn
    /\ \E i \in Awaiting : \E m \in Members(i) : IsHuman(players[m])

(* ---------- C20 ---------- *)
\* the scheduler fields of a save
SchedulerFields == {"pairings", "pairing_states", "holes_occupancy", "round_pars", "sim_time"}

\* the station slots and the pairing statuses of the state s agree
C20_SlotsAgree(s) ==
    /\ \A h \in DOMAIN s.holes_occupancy :
          s.holes_occupancy[h] # None =>
              /\ s.holes_occupancy[h] \in DOMAIN s.pairing_states
              /\ s.pairing_states[s.holes_occupancy[h]].status = "on_hole"
    /\ \A i \in DOMAIN s.pairing_states :
          s.pairing_states[i].status = "on_hole" =>
              \E h \in DOMAIN s.holes_occupancy : s.holes_occupancy[h] = i

\* the save of the current state with its station slots emptied
C20_SlotsEmptied ==
    [export_state_json(state) EXCEPT
        !["holes_occupancy"] = [h \in 0..(HOLES_PER_ROUND - 1) |-> None]]

\* C20: import_state_json installs nothing from a save that lacks a scheduler
\* field or whose slots and pairing statuses disagree, and no save of a
\* consistent state with fields missing is loaded as a state whose slots and
\* statuses disagree.
C20_ImportValidates ==
    /\ \A dropped \in SUBSET SchedulerFields :
          dropped # {} =>
              LET loaded == import_state_json(state, Without(export_state_json(state), dropped))
              IN /\ loaded = state
                 /\ C20_SlotsAgree(state) => C20_SlotsAgree(loaded)
    /\ ~C20_SlotsAgree(import_state_json(state, C20_SlotsEmptied)) =>
          import_state_json(state, C20_SlotsEmptied) = state

(* ---------- C21 ---------- *)
\* pairing i of the current round is still pairing i after the step
C21_SameRound(i) == round_num' = round_num /\ i \in Pairs /\ i \in DOMAIN pairing_states'

\* C21: a pairing's queued_since is set if and only if its status is queued
\* (it is None in pre_tee, on_hole, await_user and finished), and a pairing
\* that enters queued, from pre_tee, from a completion or from a submission,
\* has queued_since equal to the sim time of that step.
C21_QueuedSince ==
    /\ [](\A i \in Pairs : (pairing_states[i].queued_since # None) <=> (Status(i) = "queued"))
    /\ [][\A i \in Pairs :
             (C21_SameRound(i) /\ Status(i) # "queued" /\ pairing_states'[i].status = "queued")
                 => pairing_states'[i].queued_since = sim_time']_vars

\* a pairing waits in the queue after a completion while another pairing,
\* taken out of the queue, holds a station
C21_Witness ==
    \E i, j \in Pairs :
        /\ Status(i) = "queued"
        /\ pairing_states[i].next_hole > 0
        /\ pairing_states[i].queued_since = sim_time
        /\ Status(j) = "on_hole"

(* ---------- C22 ---------- *)
\* the pairings partition the roster, with one pairing state per pairing
C22_Partition ==
    /\ \A m \in DOMAIN players :
          Cardinality({<<i, k>> \in Pairs \X (1..4) :
                          k <= Len(pairings[i]) /\ pairings[i][k] = m}) = 1
    /\ \A i \in DOMAIN pairings : Members(i) \subseteq DOMAIN players
    /\ DOMAIN pairing_states = DOMAIN pairings
    /\ DOMAIN pairings = 0..(Size(pairings) - 1)

\* the member counts of the pairings, summed over the pairings from i on
RECURSIVE C22_Count(_)
C22_Count(i) == IF i >= Size(pairings) THEN 0 ELSE Len(pairings[i]) + C22_Count(i + 1)

\* every pairing but the last has g members, the last at least one and at
\* most g
C22_GroupsOf(g) ==
    \A i \in DOMAIN pairings :
        IF i < Size(pairings) - 1 THEN Len(pairings[i]) = g
        ELSE Len(pairings[i]) >= 1 /\ Len(pairings[i]) <= g

\* C22 (as stated): the pairings partition the live roster, there is one
\* pairing state per pairing, every pairing but the last has exactly
\* pairing_size members, and the member counts sum to the roster size.
C22_PairingSizeKept ==
    /\ C22_Partition
    /\ C22_Count(0) = Size(players)
    /\ C22_GroupsOf(pairing_size)

\* the step set up a round
C22_RoundBuilt == round_num' # round_num /\ round_num' <= NUM_ROUNDS

\* C22 (as amended): the pairings partition the live roster, there is one
\* pairing state per pairing, the member counts sum to the roster size, and
\* every pairing but the last has exactly as many members as pairing_size was
\* when the pairings of the round were built, the round after the cut included.
C22_Pairings ==
    /\ [](/\ C22_Partition
          /\ C22_Count(0) = Size(players)
          /\ \E g \in 2..4 : C22_GroupsOf(g))
    /\ [][/\ C22_RoundBuilt => C22_PairingSizeKept'
          /\ ~C22_RoundBuilt => pairings' = pairings /\ Size(players') = Size(players)]_vars
    /\ (sim_time = 0 => C22_PairingSizeKept)

\* round 3 is played by the survivors of the cut in rebuilt pairings, after the
\* slider has been moved away from the size they were built with
C22_Witness ==
    /\ round_num = 3
    /\ Size(players) < NumBots + 1
    /\ OnHole # {}
    /\ C22_Count(0) = Size(players)
    /\ Len(pairings[0]) # pairing_size

(* ---------- C23 ---------- *)
\* the factor of a par class in tenths: 0.8, 1.0, 1.2
C23_Factor(par_type) ==
    CASE par_type = "par3" -> 8
      [] par_type = "par4" -> 10
      [] par_type = "par5" -> 12

\* the base time of the station pairing state ps is at, for the pace given
C23_Base(ps, pars, pace) == (pace * C23_Factor(pars[ps.next_hole])) \div 10

\* the time the clock advanced in the step
C23_Dt == sim_time' - sim_time

\* pairing i of the round holds the same station before and after the step
C23_SameStation(i) ==
    /\ round_num' = round_num
    /\ pairing_states'[i].next_hole = pairing_states[i].next_hole

\* the step put pairing i on a station
C23_Assigned(i) ==
    /\ round_num' = round_num
    /\ pairing_states'[i].status = "on_hole"
    /\ ~(Status(i) = "on_hole" /\ C23_SameStation(i))

\* the step completed the station pairing i was on
C23_Completed(i) ==
    /\ Status(i) = "on_hole"
    /\ ~(C23_SameStation(i) /\ pairing_states'[i].status = "on_hole")

\* C23: a pairing put on a station gets the timer pace_seconds times the
\* factor of the station's par class, not decremented in the tick that
\* assigned it; a tick subtracts dt from the timer of exactly the pairings that
\* stay on their station, and no other step changes a timer; a station is
\* completed only by a tick that finds its timer, less dt, at or below 0; so
\* the timer of a pairing on a station is never above the base time.
C23_Countdown ==
    /\ [][\A i \in Pairs :
             /\ C23_Assigned(i) =>
                    pairing_states'[i].timer =
                        C23_Base(pairing_states'[i], round_pars', pace_seconds')
             /\ (Status(i) = "on_hole" /\ ~C23_Completed(i)) =>
                    /\ pairing_states'[i].timer = pairing_states[i].timer - C23_Dt
                    /\ pairing_states'[i].timer > 0
             /\ (Status(i) # "on_hole" /\ C23_SameStation(i)
                     /\ pairing_states'[i].status = Status(i)) =>
                    pairing_states'[i].timer = pairing_states[i].timer
             /\ C23_Completed(i) =>
                    /\ Ticked
                    /\ pairing_states[i].timer - C23_Dt <= 0]_vars
    /\ [](\A i \in OnHole :
             pairing_states[i].timer <= C23_Base(pairing_states[i], round_pars, pace_seconds))

\* a pairing has been on its station for part of the base time while another
\* has just been put on a station
C23_Witness ==
    \E i, j \in OnHole :
        /\ pairing_states[i].timer > 0
        /\ pairing_states[i].timer < C23_Base(pairing_states[i], round_pars, pace_seconds)
        /\ pairing_states[j].timer = C23_Base(pairing_states[j], round_pars, pace_seconds)

(* ---------- C24 ---------- *)
\* the cards of the players agree with the progress of their pairings
C24_Consistent ==
    /\ \A i \in Pairs : \A m \in Members(i) :
          players[m].hole_in_round = pairing_states[i].next_hole
    /\ \A m \in DOMAIN players : players[m].Scores.n = players[m].ParScores.n
    /\ \A i \in Pairs :
          (Status(i) = "finished") <=> (pairing_states[i].next_hole >= HOLES_PER_ROUND)
    /\ \A i \in Pairs : pairing_states[i].next_hole \in 0..HOLES_PER_ROUND

\* the step appended one result to every member of pairing i
C24_Scored(i) ==
    \A m \in Members(i) :
        /\ players'[m].Scores.n = players[m].Scores.n + 1
        /\ players'[m].ParScores.n = players[m].ParScores.n + 1

\* the step left the cards of the members of pairing i as long as they were
C24_NotScored(i) ==
    \A m \in Members(i) : players'[m].Scores.n = players[m].Scores.n

\* C24: every player's hole_in_round equals the next_hole of the pairing that
\* contains them, Scores and ParScores have equal length, a pairing is finished
\* if and only if its next_hole >= HOLES_PER_ROUND, and within a round a step
\* either leaves a pairing's next_hole and its members' cards alone or is the
\* one completion of its station: next_hole grows by exactly 1 and every
\* member gets one result.
C24_Progress ==
    /\ []C24_Consistent
    /\ [][\A i \in Pairs :
             IF round_num' = round_num
             THEN \/ /\ pairing_states'[i].next_hole = pairing_states[i].next_hole
                     /\ C24_NotScored(i)
                  \/ /\ pairing_states'[i].next_hole = pairing_states[i].next_hole + 1
                     /\ C24_Scored(i)
             ELSE pairing_states[i].next_hole + 1 >= HOLES_PER_ROUND]_vars

\* in a later round one pairing has finished, another has played its first
\* station and is on or waiting for the next
C24_Witness ==
    /\ round_num >= 2
    /\ \E i, j \in Pairs :
          /\ Status(i) = "finished"
          /\ Status(j) # "finished"
          /\ pairing_states[j].next_hole > 0
          /\ \A m \in Members(j) : players[m].hole_in_round = pairing_states[j].next_hole

(* ---------- C25 ---------- *)
\* the championship is over
C25_Over == round_num > NUM_ROUNDS

\* more than the longest base time of a station
C25_B == base_time_for("par5", pace_seconds) + 2
\* more than the work a pairing has left at a station
C25_K == C25_B + 2
\* more than the longest wait for a tee time
C25_T == (NumBots + 1) * tee_interval + 1
\* more than the work of all the pairings of a round
C25_R == (NumBots + 1) * (HOLES_PER_ROUND * C25_K + 1 + C25_T) + 1

\* the work pairing state ps has left in its round at sim time now: the
\* stations to play, less for being on the station, less again once the
\* station is played out and the user's score is waited for
C25_Left(ps, now) ==
    LET stations == (HOLES_PER_ROUND - ps.next_hole) * C25_K IN
    CASE ps.status = "finished" -> 0
      [] ps.status = "pre_tee" ->
             stations + 1 + (IF ps.tee_time > now THEN ps.tee_time - now ELSE 0)
      [] ps.status = "queued" -> stations
      [] ps.status = "on_hole" -> stations - C25_B + ps.timer
      [] ps.status = "await_user" -> stations - C25_B - 1

\* the work left to the pairings from i on
RECURSIVE C25_LeftFrom(_)
C25_LeftFrom(i) ==
    IF i >= Size(pairing_states) THEN 0
    ELSE C25_Left(pairing_states[i], sim_time) + C25_LeftFrom(i + 1)

\* the work left in the championship: the rounds to end and the round in play
C25_Work ==
    (IF C25_Over THEN 0 ELSE (NUM_ROUNDS + 1 - round_num) * C25_R) + C25_LeftFrom(0)

\* the step is an accepted submission
C25_Answered == ~Ticked /\ players' # players

\* every pairing that waits for its user is eventually answered by a
\* submission: weak fairness of the score form
C25_TurnsAnswered == []<>(Awaiting = {}) \/ []<><<SubmitUserScore>>_vars

\* C25 (as stated, for auto mode): in auto mode, until the championship is
\* over, a tick with dt > 0 always has a pairing to move or a round to end, so
\* that ticks alone play the championship out.
C25_AutoTicksSuffice == (auto_mode /\ ~C25_Over) => clock_has_work(state)

\* C25 (as amended): until the championship is over there is always a tick
\* with work or a pairing await_user whose submission is accepted; every tick
\* with dt > 0 that has work and every accepted submission reduces the work
\* left, which is never negative, no step adds to it, and it is 0 exactly when
\* round_num exceeds NUM_ROUNDS; a tick without work moves the clock only.
\* So ticks with dt > 0 and a submission for every pairing that is
\* await_user, in auto mode as in manual mode, end every round and the
\* championship, and no queued or on_hole pairing is left behind.
C25_PlayedOut ==
    /\ [](/\ C25_Work >= 0
          /\ (C25_Work = 0) <=> C25_Over
          /\ ~C25_Over => (clock_has_work(state) \/ Awaiting # {})
          /\ \A i \in Awaiting : accepts_submission(state, i))
    /\ [][/\ C25_Work' <= C25_Work
          /\ (Ticked /\ clock_has_work(state)) => C25_Work' < C25_Work
          /\ C25_Answered => C25_Work' < C25_Work
          /\ (Ticked /\ ~clock_has_work(state) /\ ~C25_Over) =>
                 state' = [state EXCEPT !.sim_time = sim_time']]_vars
    /\ (C25_TurnsAnswered => []<>(C25_Over \/ sim_time + MinDt > MaxSimTime))

\* the championship has been played out in manual mode, with a submitted
\* score of MAX_DARTS on the human player's card
C25_Witness ==
    /\ C25_Over
    /\ ~auto_mode
    /\ \A i \in Pairs : Status(i) = "finished"
    /\ \E m \in DOMAIN players :
          IsHuman(players[m]) /\ players[m].Scores.sum > 5 * players[m].Scores.n

====
